---- MODULE Spec2Model ----
(***************************************************************************)
(* A model of the Monte Carlo season simulators of simtools-swiss-mc:      *)
(* src/swiss.py (36-team Swiss league phase), src/main.py (its older       *)
(* duplicate), src/baseline.py (32-team group stage) and src/compare.py    *)
(* (runs both).                                                            *)
(*                                                                         *)
(* Team indices are 0-based as in the Python code; sequences are TLA+      *)
(* sequences, so the team with index i is teams[i + 1] (see At).           *)
(*                                                                         *)
(* The generator (numpy's PCG64 behind np.random.default_rng) is library   *)
(* code.  It is modelled as what the code relies on: an object with a      *)
(* state that every draw advances, so that the values drawn are a function *)
(* of the seed and of the draws made before.  Probabilities are fixed      *)
(* point numbers in units of 1/10000.                                      *)
(***************************************************************************)
EXTENDS Integers, Sequences, FiniteSets, TLC

VARIABLES
    entry,        \* the module run as the program, or the function called
    build,        \* what this build does where the code leaves the order open
    seed,         \* the seed every generator of the run was created with
    threshold,    \* WEAK_ELO_THRESHOLD of this run
    rng,          \* the state of each module's generator
    pc,           \* position in the program
    n_seasons,    \* argument of run_*_simulation
    season,       \* seasons completed by the running run_*_simulation loop
    teams,        \* the season's pool: sequence of [name, elo]
    points,       \* the points accumulator, points[i + 1] for team i
    pots,         \* Swiss: the 4 pots (sequences of teams)
    i,            \* Swiss: the team whose schedule is being drawn and played
    potNo,        \* Swiss: the pot the next opponent draw is taken from
    opponents,    \* Swiss: the opponent set of team i
    todo,         \* Swiss: the opponents of i still to be played, in iteration order
    groups,       \* baseline: the 8 groups (sequences of team indices)
    cur,          \* baseline: the fixture to play next, [g, i, j, leg]
    fixtures,     \* history: the fixtures simulated this season, [a, b, pa, pb]
    ranked,       \* the season's ranking(s)
    ret,          \* what the season evaluator returned
    totals,       \* the running sums of run_*_simulation
    avgs,         \* what run_*_simulation returned
    draws,        \* history: per generator, the number of draws taken from it
    run,          \* 1 for the first run, 2 for the run after a re-seed
    first,        \* what the first run's season returned
    results       \* history: what each season of the running simulation returned

vars == << entry, build, seed, threshold, rng, pc, n_seasons, season, teams, points,
           pots, i, potNo, opponents, todo, groups, cur, fixtures, ranked, ret,
           totals, avgs, draws, run, first, results >>

-----------------------------------------------------------------------------
(* Bounds of the model *)

\* seeds SEED .. SEED + MaxSeed are explored
MaxSeed == 2
\* n_seasons ranges over 1 .. MaxSeasons
MaxSeasons == 2

(* Program constants *)

SEED == 42
WEAK_ELO_THRESHOLD == 1500
N_TEAMS == 36
\* 0.25, in units of 1/10000
DRAW_PROB == 2500
\* 1.0 in fixed point
ONE == 10000

Modules == {"swiss", "baseline", "main"}

-----------------------------------------------------------------------------
(* Python helpers *)

At(s, k) == s[k + 1]

Min(a, b) == IF a < b THEN a ELSE b

\* s[a:b] of Python, for 0 <= a <= b: out-of-range bounds are clamped
Slice(s, a, b) == SubSeq(s, Min(a, Len(s)) + 1, Min(b, Len(s)))

Swap(s, a, b) == [s EXCEPT ![a + 1] = s[b + 1], ![b + 1] = s[a + 1]]

RECURSIVE SeqSum(_)
SeqSum(s) == IF s = << >> THEN 0 ELSE Head(s) + SeqSum(Tail(s))

\* the elements of a sequence of indices
Range(s) == {s[k] : k \in 1..Len(s)}

-----------------------------------------------------------------------------
(* Random Stream: rng = np.random.default_rng(42) *)

\* the generator's state transition, taken by every draw
Step(x) == (25173 * x + 13849) % 65536

RECURSIVE Advance(_, _)
Advance(x, k) == IF k = 0 THEN x ELSE Advance(Step(x), k - 1)

\* a generator state scaled to 0 .. n-1
Below(x, n) == (x * n) \div 65536

\* rng.integers(lo, hi): an integer of lo .. hi-1
Integers(st, lo, hi) == [val |-> lo + Below(Step(st), hi - lo), st |-> Step(st)]

\* faulty variant: the value comes from a generator the re-seeding does not reach
RandomUnseeded(st) == [val |-> Below(Step(st + run), ONE), st |-> Step(st)]

\* rng.random(): a value of [0, 1), in units of 1/10000
Random(st) == [val |-> Below(Step(st), ONE), st |-> Step(st)]

\* rng.shuffle(x): Fisher-Yates from the last position down, 0-based position k
RECURSIVE ShuffleFrom(_, _, _)
ShuffleFrom(x, k, st) ==
    IF k < 1 THEN [val |-> x, st |-> st]
    ELSE ShuffleFrom(Swap(x, k, Below(Step(st), k + 1)), k - 1, Step(st))

Shuffle(x, st) == ShuffleFrom(x, Len(x) - 1, st)

Remove(s, k) == SubSeq(s, 1, k) \o SubSeq(s, k + 2, Len(s))

\* rng.choice(a, size=2, replace=False) on a population of at least 2
Choice2(a, st) ==
    LET k1 == Below(Step(st), Len(a))
        rest == Remove(a, k1)
        k2 == Below(Step(Step(st)), Len(rest))
    IN  [val |-> << At(a, k1), At(rest, k2) >>, st |-> Step(Step(st))]

-----------------------------------------------------------------------------
(* Team Pool Generator *)

Tier(name, n, lo, hi) == [tier |-> name, n |-> n, lo |-> lo, hi |-> hi]

\* faulty variant: the teams of a tier are not numbered, so they share a name
DrawTierUnnumbered(t, st) ==
    [val |-> [k \in 1..t.n |->
                 [name |-> << t.tier, 1 >>,
                  elo |-> Integers(Advance(st, k - 1), t.lo, t.hi).val]],
     st |-> Advance(st, t.n)]

\* one "for i in range(n): teams.append((name_i, rng.integers(lo, hi)))" loop
DrawTier(t, st) ==
    [val |-> [k \in 1..t.n |->
                 [name |-> << t.tier, k >>,
                  elo |-> Integers(Advance(st, k - 1), t.lo, t.hi).val]],
     st |-> Advance(st, t.n)]

GenerateFrom(tiers, st) ==
    LET t1 == DrawTier(tiers[1], st)
        t2 == DrawTier(tiers[2], t1.st)
        t3 == DrawTier(tiers[3], t2.st)
        t4 == DrawTier(tiers[4], t3.st)
    IN  Shuffle(t1.val \o t2.val \o t3.val \o t4.val, t4.st)

\* swiss.py / main.py: 8 top, 10 strong, 10 medium, 8 weak teams
generate_teams(st) ==
    GenerateFrom(<< Tier("Top", 8, 1850, 2051), Tier("Strong", 10, 1750, 1850),
                    Tier("Mid", 10, 1550, 1750), Tier("Weak", 8, 1350, 1550) >>, st)

\* baseline.py: 8 teams per tier
generate_teams_32(st) ==
    GenerateFrom(<< Tier("Top", 8, 1850, 2051), Tier("Strong", 8, 1750, 1850),
                    Tier("Mid", 8, 1550, 1750), Tier("Weak", 8, 1350, 1550) >>, st)

\* the number of draws one pool generation takes: one per team, and the shuffle
GenDraws(n) == n + (n - 1)

-----------------------------------------------------------------------------
(* Match Outcome Model *)

\* 10 ** (e / 400.0) in fixed point, for 0 <= e < 400:
\* 10^(e/400) = 10^(a/8) * 10^(b/40) * 10^(c/400) with e = 50a + 10b + c
Pow10Frac(e) ==
    LET t8 == << 10000, 13335, 17783, 23714, 31623, 42170, 56234, 74989 >>
        t40 == << 10000, 10593, 11220, 11885, 12589 >>
        t400 == << 10000, 10058, 10116, 10174, 10233, 10292, 10351, 10411, 10471, 10532 >>
    IN  (((t8[(e \div 50) + 1] * t40[((e % 50) \div 10) + 1]) \div ONE)
            * t400[(e % 10) + 1]) \div ONE

RECURSIVE Scale10(_, _)
Scale10(v, q) ==
    IF q = 0 THEN v
    ELSE IF q > 0 THEN Scale10(v * 10, q - 1)
    ELSE Scale10(v \div 10, q + 1)

\* 10 ** (e / 400.0) in fixed point
Pow10(e) == Scale10(Pow10Frac(e % 400), e \div 400)

\* 1.0 / (1.0 + 10 ** (-(elo_a - elo_b) / 400.0))
win_probability(elo_a, elo_b) == (ONE * ONE) \div (ONE + Pow10(-(elo_a - elo_b)))

\* faulty variant: a draw of exactly p_draw still counts as a drawn match
MatchResultInclusive(elo_a, elo_b, r) ==
    LET p_win_a == win_probability(elo_a, elo_b)
        p_draw == DRAW_PROB
        p_win_a_adj == ((ONE - p_draw) * p_win_a) \div ONE
    IN  IF r <= p_draw THEN << 1, 1 >>
        ELSE IF r < p_draw + p_win_a_adj THEN << 3, 0 >>
        ELSE << 0, 3 >>

\* the point pair of one match whose uniform draw is r
MatchResult(elo_a, elo_b, r) ==
    LET p_win_a == win_probability(elo_a, elo_b)
        p_draw == DRAW_PROB
        p_win_a_adj == ((ONE - p_draw) * p_win_a) \div ONE
    IN  IF r < p_draw THEN << 1, 1 >>
        ELSE IF r < p_draw + p_win_a_adj THEN << 3, 0 >>
        ELSE << 0, 3 >>

simulate_match(elo_a, elo_b, st) ==
    LET r == Random(st)
    IN  [val |-> MatchResult(elo_a, elo_b, r.val), st |-> r.st, r |-> r.val]

-----------------------------------------------------------------------------
(* Sorting *)

\* sorted(xs, key=..., reverse=True) on a sequence of [key, val]: descending by
\* key, equal keys keep their order in xs
RECURSIVE InsertDesc(_, _)
InsertDesc(done, x) ==
    IF done = << >> THEN << x >>
    ELSE IF Head(done).key >= x.key THEN << Head(done) >> \o InsertDesc(Tail(done), x)
    ELSE << x >> \o done

RECURSIVE SortedDescFrom(_, _)
SortedDescFrom(done, xs) ==
    IF xs = << >> THEN done
    ELSE SortedDescFrom(InsertDesc(done, Head(xs)), Tail(xs))

SortedDesc(xs) == SortedDescFrom(<< >>, xs)

\* the same, equal keys in the reverse of their order in xs
RECURSIVE InsertDescRev(_, _)
InsertDescRev(done, x) ==
    IF done = << >> THEN << x >>
    ELSE IF Head(done).key > x.key THEN << Head(done) >> \o InsertDescRev(Tail(done), x)
    ELSE << x >> \o done

RECURSIVE SortedDescRevFrom(_, _)
SortedDescRevFrom(done, xs) ==
    IF xs = << >> THEN done
    ELSE SortedDescRevFrom(InsertDescRev(done, Head(xs)), Tail(xs))

SortedDescRev(xs) == SortedDescRevFrom(<< >>, xs)

Vals(xs) == [k \in 1..Len(xs) |-> xs[k].val]

\* the indices 0 .. n-1 as a sequence
Arange(n) == [k \in 1..n |-> k - 1]

\* np.argsort(-keys): the indices by key descending.  The default kind is an
\* unstable sort: the order of equal keys is the build's.
ArgsortDesc(keys, b) ==
    LET xs == [k \in 1..Len(keys) |-> [key |-> keys[k], val |-> k - 1]]
    IN  IF b.argsort = "stable" THEN Vals(SortedDesc(xs)) ELSE Vals(SortedDescRev(xs))

\* iteration over a Python set of indices: an order the build fixes
RECURSIVE Ascending(_)
Ascending(S) ==
    IF S = {} THEN << >>
    ELSE LET m == CHOOSE x \in S : \A y \in S : x <= y
         IN  << m >> \o Ascending(S \ {m})

Reverse(s) == [k \in 1..Len(s) |-> s[Len(s) + 1 - k]]

SetIter(S, b) == IF b.setiter = "asc" THEN Ascending(S) ELSE Reverse(Ascending(S))

Builds == { [argsort |-> "stable", setiter |-> "asc"],
            [argsort |-> "reverse", setiter |-> "desc"] }

-----------------------------------------------------------------------------
(* Swiss-Phase Simulator *)

\* faulty variant: the second pot starts one team early
Pots4Overlap(sorted_teams) ==
    << Slice(sorted_teams, 0, 9), Slice(sorted_teams, 8, 18),
       Slice(sorted_teams, 18, 27), Slice(sorted_teams, 27, 36) >>

Pots4(sorted_teams) ==
    << Slice(sorted_teams, 0, 9), Slice(sorted_teams, 9, 18),
       Slice(sorted_teams, 18, 27), Slice(sorted_teams, 27, 36) >>

\* swiss.py: teams_sorted = sorted(teams, key=lambda x: x[1], reverse=True)
make_pots_by_elo(ts) ==
    Pots4(Vals(SortedDesc([k \in 1..Len(ts) |-> [key |-> ts[k].elo, val |-> ts[k]]])))

\* main.py: order = np.argsort([-elo for (_, elo) in teams])
make_pots_by_elo_main(ts, b) ==
    LET order == ArgsortDesc([k \in 1..Len(ts) |-> ts[k].elo], b)
    IN  Pots4([k \in 1..Len(ts) |-> At(ts, order[k])])

\* name_to_idx = {teams[i][0]: i for i in range(len(teams))}: a later team of
\* the same name replaces an earlier one
name_to_idx(ts, name) ==
    CHOOSE k \in 0..(Len(ts) - 1) :
        /\ At(ts, k).name = name
        /\ \A l \in (k + 1)..(Len(ts) - 1) : At(ts, l).name # name

\* the indices of a pot's teams, in pot order
PotIdx(ts, pot) == [k \in 1..Len(pot) |-> name_to_idx(ts, pot[k].name)]

\* faulty variant: the team itself is not excluded
CandidatesWithSelf(ts, pot, ti, opp) ==
    SelectSeq(PotIdx(ts, pot), LAMBDA j : j \notin opp)

\* candidates: the pot's indices j with j != i and j not in opponents
Candidates(ts, pot, ti, opp) ==
    SelectSeq(PotIdx(ts, pot), LAMBDA j : j # ti /\ j \notin opp)

-----------------------------------------------------------------------------
(* Group-Stage Simulator *)

\* faulty variant: the slices advance by 3, not 4
GroupsOfOverlap(indices) == [g \in 1..8 |-> Slice(indices, (g - 1) * 3, (g - 1) * 3 + 4)]

\* groups = [indices[i * 4:(i + 1) * 4] for i in range(8)]
GroupsOf(indices) == [g \in 1..8 |-> Slice(indices, (g - 1) * 4, g * 4)]

\* the fixture after [g, i, j, leg] in
\*   for group in groups: for i in range(4): for j in range(i + 1, 4): match 1; match 2
\* (g = 8 after the last one: the loop over the groups is over)
NextFixture(c) ==
    IF c.leg = 1 THEN [c EXCEPT !.leg = 2]
    ELSE IF c.j < 3 THEN [c EXCEPT !.j = c.j + 1, !.leg = 1]
    ELSE IF c.i < 2 THEN [c EXCEPT !.i = c.i + 1, !.j = c.i + 2, !.leg = 1]
    ELSE [g |-> c.g + 1, i |-> 0, j |-> 1, leg |-> 1]

\* faulty variant: only the first team is credited
CreditFirstOnly(pts, a, b, pa, pb) == [pts EXCEPT ![a + 1] = @ + pa]

\* points[a] += pa; points[b] += pb
Credit(pts, a, b, pa, pb) ==
    LET p1 == [pts EXCEPT ![a + 1] = @ + pa]
    IN  [p1 EXCEPT ![b + 1] = @ + pb]

\* faulty variant: the opponent is credited as well
CreditOpponentToo(pts, ti, tj, pi, pj) == Credit(pts, ti, tj, pi, pj)

\* Swiss phase: pi, _ = simulate_match(elo_i, elo_j); points[i] += pi
CreditOwn(pts, ti, tj, pi, pj) == [pts EXCEPT ![ti + 1] = @ + pi]

-----------------------------------------------------------------------------
(* Season Evaluator *)

\* faulty variant: the comparison is turned around
IsWeakFlipped(elo, thr) == elo > thr

\* elo < WEAK_ELO_THRESHOLD
IsWeak(elo, thr) == elo < thr

\* sum(1 for ... in xs if elo < WEAK_ELO_THRESHOLD) over a sequence of ratings
CountWeak(elos, thr) == Len(SelectSeq(elos, LAMBDA e : IsWeak(e, thr)))

\* faulty variant: the slice is forgotten
TopNAll(rk, n) == rk

\* ranked[:n] of the Swiss ranking
TopN(rk, n) == Slice(rk, 0, n)

\* simulate_one_swiss_season, from order = np.argsort(-points) on
SwissRanking(ts, pts, b) ==
    LET order == ArgsortDesc(pts, b)
    IN  [k \in 1..Len(order) |->
            [idx |-> order[k], name |-> At(ts, order[k]).name,
             elo |-> At(ts, order[k]).elo, points |-> At(pts, order[k])]]

Elos(rk) == [k \in 1..Len(rk) |-> rk[k].elo]

SwissCounts(rk, thr) ==
    [weak_in_top8 |-> CountWeak(Elos(TopN(rk, 8)), thr),
     weak_in_top24 |-> CountWeak(Elos(TopN(rk, 24)), thr)]

\* faulty variant: equal points come out in the reverse of their order in the group
GroupRankingRev(group, pts) ==
    Vals(SortedDescRev([k \in 1..Len(group) |-> [key |-> At(pts, group[k]), val |-> group[k]]]))

\* ranked = sorted(group, key=lambda idx: points[idx], reverse=True)
GroupRanking(group, pts) ==
    Vals(SortedDesc([k \in 1..Len(group) |-> [key |-> At(pts, group[k]), val |-> group[k]]]))

\* top2 = ranked[:2]
Top2(rk) == Slice(rk, 0, 2)

\* the loop over the groups in simulate_one_baseline_season
BaselineCounts(ts, rks, thr) ==
    LET EloOf(idxs) == [k \in 1..Len(idxs) |-> At(ts, idxs[k]).elo]
    IN  [weak_qualified |->
            SeqSum([g \in 1..Len(rks) |-> CountWeak(EloOf(Top2(rks[g])), thr)]),
         weak_group_winner |->
            SeqSum([g \in 1..Len(rks) |-> CountWeak(EloOf(Slice(rks[g], 0, 1)), thr)])]

-----------------------------------------------------------------------------
(* The program *)

\* faulty variant: one generator for every module
GenShared(m) == "swiss"

\* the generator a module's functions draw from: the module's own global rng
Gen(m) == m

\* the module whose Swiss code runs
SwissModule == IF entry = "main" THEN "main" ELSE "swiss"

Seeded(s) == [m \in Modules |-> s]

NoDraws == [m \in Modules |-> 0]

Zeros(n) == [k \in 1..n |-> 0]

Drawn(m, st, k) ==
    /\ rng' = [rng EXCEPT ![Gen(m)] = st]
    /\ draws' = [draws EXCEPT ![Gen(m)] = @ + k]

IsCall == entry \in {"call_swiss", "call_baseline"}
IsSeason == entry \in {"season_swiss", "season_baseline"}

\* faulty variant: the total is divided by one season more than were simulated
AvgOverOneMore(total, n) == [num |-> total, den |-> n + 1]

\* an average as the pair total / n_seasons; den = 0: not returned yet
Avg(total, n) == [num |-> total, den |-> n]

NoAvgs == [avg_top8 |-> Avg(0, 0), avg_top24 |-> Avg(0, 0),
           avg_qualified |-> Avg(0, 0), avg_winners |-> Avg(0, 0)]

Blank ==
    /\ points = << >> /\ pots = << >> /\ i = 0 /\ potNo = 1
    /\ opponents = {} /\ todo = << >> /\ groups = << >>
    /\ cur = [g |-> 0, i |-> 0, j |-> 1, leg |-> 1]
    /\ fixtures = << >> /\ ranked = << >> /\ ret = << >> /\ totals = << >>
    /\ avgs = NoAvgs /\ season = 0 /\ first = << >> /\ results = << >>

\* python -m src.swiss | src.main | src.baseline | src.compare
Init ==
    /\ entry \in {"swiss", "main", "baseline", "compare"}
    /\ build \in Builds
    /\ seed \in SEED..(SEED + MaxSeed)
    /\ threshold = WEAK_ELO_THRESHOLD
    /\ run = 1
    /\ rng = Seeded(seed)
    /\ draws = NoDraws
    /\ n_seasons \in 1..MaxSeasons
    /\ pc = "start"
    /\ teams = << >>
    /\ Blank

\* run_swiss_simulation: total_w8 = 0; total_w24 = 0
RunSwissSimulation ==
    /\ pc = "start"
    /\ entry \in {"swiss", "main", "compare"}
    /\ totals' = [w8 |-> 0, w24 |-> 0]
    /\ season' = 0
    /\ results' = << >>
    /\ pc' = "swiss_loop"
    /\ UNCHANGED << entry, build, seed, threshold, rng, n_seasons, teams, points, pots, i,
                    potNo, opponents, todo, groups, cur, fixtures, ranked, ret, avgs,
                    draws, run, first >>

\* for _ in range(n_seasons): ... ; after the loop swiss.py returns the two
\* averages (main.py only prints them)
SwissLoop ==
    /\ pc = "swiss_loop"
    /\ IF season < n_seasons
       THEN /\ pc' = "swiss_season"
            /\ avgs' = avgs
       ELSE /\ avgs' = IF SwissModule = "main" THEN avgs
                       ELSE [avgs EXCEPT !.avg_top8 = Avg(totals.w8, n_seasons),
                                         !.avg_top24 = Avg(totals.w24, n_seasons)]
            /\ pc' = IF entry = "compare" THEN "swiss_returned" ELSE "done"
    /\ UNCHANGED << results, entry, build, seed, threshold, rng, n_seasons, season, teams, points,
                    pots, i, potNo, opponents, todo, groups, cur, fixtures, ranked, ret,
                    totals, draws, run, first >>

\* simulate_one_swiss_season: teams = generate_teams()
SwissGenerate ==
    /\ pc = "swiss_season"
    /\ LET t == generate_teams(rng[Gen(SwissModule)])
       IN  /\ teams' = t.val
           /\ Drawn(SwissModule, t.st, GenDraws(N_TEAMS))
    /\ pc' = "swiss_phase"
    /\ UNCHANGED << results, entry, build, seed, threshold, n_seasons, season, points, pots, i,
                    potNo, opponents, todo, groups, cur, fixtures, ranked, ret, totals,
                    avgs, run, first >>

\* simulate_swiss_league_phase, up to the loop over the teams
SwissPhaseStart ==
    /\ pc = "swiss_phase"
    /\ points' = Zeros(Len(teams))
    /\ pots' = IF SwissModule = "main" THEN make_pots_by_elo_main(teams, build)
               ELSE make_pots_by_elo(teams)
    /\ i' = 0
    /\ opponents' = {}
    /\ potNo' = 1
    /\ todo' = << >>
    /\ fixtures' = << >>
    /\ pc' = IF Len(teams) = 0 THEN (IF IsCall THEN "returned" ELSE "swiss_eval")
             ELSE "swiss_draw"
    /\ UNCHANGED << results, entry, build, seed, threshold, rng, n_seasons, season, teams, groups,
                    cur, ranked, ret, totals, avgs, draws, run, first >>

\* one pass of "for pot in pots": the candidates and rng.choice(candidates, size=2,
\* replace=False), which raises ValueError on fewer than 2 candidates
DrawOpponents ==
    /\ pc = "swiss_draw"
    /\ LET candidates == Candidates(teams, pots[potNo], i, opponents)
       IN  IF Len(candidates) < 2
           THEN /\ pc' = "error"
                /\ UNCHANGED << rng, draws, opponents, potNo, todo >>
           ELSE LET pick == Choice2(candidates, rng[Gen(SwissModule)])
                    opp == opponents \cup Range(pick.val)
                IN  /\ Drawn(SwissModule, pick.st, 2)
                    /\ opponents' = opp
                    /\ IF potNo < 4
                       THEN /\ potNo' = potNo + 1
                            /\ pc' = "swiss_draw"
                            /\ todo' = todo
                       ELSE /\ potNo' = potNo
                            /\ todo' = SetIter(opp, build)
                            /\ pc' = "swiss_play"
    /\ UNCHANGED << results, entry, build, seed, threshold, n_seasons, season, teams, points, pots,
                    i, groups, cur, fixtures, ranked, ret, totals, avgs, run, first >>

\* one pass of "for j in opponents": pi, _ = simulate_match(elo_i, elo_j);
\* points[i] += pi.  After the last opponent the loop over the teams goes on.
SwissPlayFixture ==
    /\ pc = "swiss_play"
    /\ todo # << >>
    /\ LET j == Head(todo)
           m == simulate_match(At(teams, i).elo, At(teams, j).elo, rng[Gen(SwissModule)])
       IN  /\ Drawn(SwissModule, m.st, 1)
           /\ points' = CreditOwn(points, i, j, m.val[1], m.val[2])
           /\ fixtures' = Append(fixtures, [a |-> i, b |-> j, pa |-> m.val[1], pb |-> m.val[2]])
    /\ todo' = Tail(todo)
    /\ IF Tail(todo) # << >>
       THEN /\ pc' = "swiss_play"
            /\ UNCHANGED << i, opponents, potNo >>
       ELSE IF i + 1 < Len(teams)
       THEN /\ i' = i + 1
            /\ opponents' = {}
            /\ potNo' = 1
            /\ pc' = "swiss_draw"
       ELSE /\ pc' = IF IsCall THEN "returned" ELSE "swiss_eval"
            /\ UNCHANGED << i, opponents, potNo >>
    /\ UNCHANGED << results, entry, build, seed, threshold, n_seasons, season, teams, pots, groups,
                    cur, ranked, ret, totals, avgs, run, first >>

\* simulate_one_swiss_season after the phase: the ranking and the two counts
SwissEvaluate ==
    /\ pc = "swiss_eval"
    /\ ranked' = SwissRanking(teams, points, build)
    /\ ret' = SwissCounts(ranked', threshold)
    /\ results' = Append(results, ret')
    /\ pc' = IF IsSeason THEN "returned" ELSE "swiss_acc"
    /\ UNCHANGED << entry, build, seed, threshold, rng, n_seasons, season, teams, points,
                    pots, i, potNo, opponents, todo, groups, cur, fixtures, totals, avgs,
                    draws, run, first >>

\* total_w8 += w8; total_w24 += w24
SwissAccumulate ==
    /\ pc = "swiss_acc"
    /\ totals' = [w8 |-> totals.w8 + ret.weak_in_top8, w24 |-> totals.w24 + ret.weak_in_top24]
    /\ season' = season + 1
    /\ pc' = "swiss_loop"
    /\ UNCHANGED << results, entry, build, seed, threshold, rng, n_seasons, teams, points, pots, i,
                    potNo, opponents, todo, groups, cur, fixtures, ranked, ret, avgs,
                    draws, run, first >>

\* run_baseline_simulation: total_qualified = 0; total_winners = 0
RunBaselineSimulation ==
    /\ \/ pc = "start" /\ entry = "baseline"
       \/ pc = "swiss_returned" /\ entry = "compare"
    /\ totals' = [qualified |-> 0, winners |-> 0]
    /\ season' = 0
    /\ results' = << >>
    /\ pc' = "base_loop"
    /\ UNCHANGED << entry, build, seed, threshold, rng, n_seasons, teams, points, pots, i,
                    potNo, opponents, todo, groups, cur, fixtures, ranked, ret, avgs,
                    draws, run, first >>

\* for _ in range(n_seasons): ... ; after the loop the two averages are returned
BaselineLoop ==
    /\ pc = "base_loop"
    /\ IF season < n_seasons
       THEN /\ pc' = "base_season"
            /\ avgs' = avgs
       ELSE /\ avgs' = [avgs EXCEPT !.avg_qualified = Avg(totals.qualified, n_seasons),
                                     !.avg_winners = Avg(totals.winners, n_seasons)]
            /\ pc' = "done"
    /\ UNCHANGED << results, entry, build, seed, threshold, rng, n_seasons, season, teams, points,
                    pots, i, potNo, opponents, todo, groups, cur, fixtures, ranked, ret,
                    totals, draws, run, first >>

\* simulate_one_baseline_season: teams = generate_teams_32()
BaselineGenerate ==
    /\ pc = "base_season"
    /\ LET t == generate_teams_32(rng[Gen("baseline")])
       IN  /\ teams' = t.val
           /\ Drawn("baseline", t.st, GenDraws(32))
    /\ pc' = "base_phase"
    /\ UNCHANGED << results, entry, build, seed, threshold, n_seasons, season, points, pots, i,
                    potNo, opponents, todo, groups, cur, fixtures, ranked, ret, totals,
                    avgs, run, first >>

\* simulate_group_stage, up to the loop over the groups
DrawGroups ==
    /\ pc = "base_phase"
    /\ points' = Zeros(Len(teams))
    /\ LET indices == Shuffle(Arange(32), rng[Gen("baseline")])
       IN  /\ groups' = GroupsOf(indices.val)
           /\ Drawn("baseline", indices.st, 31)
    /\ cur' = [g |-> 0, i |-> 0, j |-> 1, leg |-> 1]
    /\ fixtures' = << >>
    /\ pc' = "base_play"
    /\ UNCHANGED << results, entry, build, seed, threshold, n_seasons, season, teams, pots, i, potNo,
                    opponents, todo, ranked, ret, totals, avgs, run, first >>

\* one match of the double round-robin: teams[a] or teams[b] raises IndexError
\* when the pool has no such index
PlayGroupFixture ==
    /\ pc = "base_play"
    /\ LET a == At(groups[cur.g + 1], cur.i)
           b == At(groups[cur.g + 1], cur.j)
       IN  IF a >= Len(teams) \/ b >= Len(teams)
           THEN /\ pc' = "error"
                /\ UNCHANGED << rng, draws, points, fixtures, cur >>
           ELSE LET m == simulate_match(At(teams, a).elo, At(teams, b).elo,
                                        rng[Gen("baseline")])
                    nxt == NextFixture(cur)
                IN  /\ Drawn("baseline", m.st, 1)
                    /\ points' = Credit(points, a, b, m.val[1], m.val[2])
                    /\ fixtures' = Append(fixtures, [a |-> a, b |-> b, pa |-> m.val[1],
                                                    pb |-> m.val[2]])
                    /\ IF nxt.g >= Len(groups)
                       THEN /\ cur' = cur
                            /\ pc' = IF IsCall THEN "returned" ELSE "base_eval"
                       ELSE /\ cur' = nxt
                            /\ pc' = "base_play"
    /\ UNCHANGED << results, entry, build, seed, threshold, n_seasons, season, teams, pots, i, potNo,
                    opponents, todo, groups, ranked, ret, totals, avgs, run, first >>

\* simulate_one_baseline_season after the group stage
BaselineEvaluate ==
    /\ pc = "base_eval"
    /\ ranked' = [g \in 1..Len(groups) |-> GroupRanking(groups[g], points)]
    /\ ret' = BaselineCounts(teams, ranked', threshold)
    /\ results' = Append(results, ret')
    /\ pc' = IF IsSeason THEN "returned" ELSE "base_acc"
    /\ UNCHANGED << entry, build, seed, threshold, rng, n_seasons, season, teams, points,
                    pots, i, potNo, opponents, todo, groups, cur, fixtures, totals, avgs,
                    draws, run, first >>

\* total_qualified += q; total_winners += w
BaselineAccumulate ==
    /\ pc = "base_acc"
    /\ totals' = [qualified |-> totals.qualified + ret.weak_qualified,
                  winners |-> totals.winners + ret.weak_group_winner]
    /\ season' = season + 1
    /\ pc' = "base_loop"
    /\ UNCHANGED << results, entry, build, seed, threshold, rng, n_seasons, teams, points, pots, i,
                    potNo, opponents, todo, groups, cur, fixtures, ranked, ret, avgs,
                    draws, run, first >>

SwissSteps ==
    \/ SwissGenerate \/ SwissPhaseStart \/ DrawOpponents \/ SwissPlayFixture \/ SwissEvaluate

BaselineSteps ==
    \/ BaselineGenerate \/ DrawGroups \/ PlayGroupFixture \/ BaselineEvaluate

Next ==
    \/ RunSwissSimulation \/ SwissLoop \/ SwissAccumulate
    \/ RunBaselineSimulation \/ BaselineLoop \/ BaselineAccumulate
    \/ SwissSteps
    \/ BaselineSteps

Spec == Init /\ [][Next]_vars

-----------------------------------------------------------------------------
(* A season or a simulation run twice, the generators re-seeded in between *)

Thresholds == {WEAK_ELO_THRESHOLD, 1900}

StartOf(e) ==
    IF e = "season_swiss" THEN "swiss_season"
    ELSE IF e = "season_baseline" THEN "base_season"
    ELSE "start"

\* simulate_one_swiss_season() | simulate_one_baseline_season() called directly,
\* or run_swiss_simulation(n) | run_baseline_simulation(n)
InitRerun ==
    /\ \/ entry \in {"season_swiss", "season_baseline"} /\ n_seasons = 1
       \/ entry \in {"swiss", "baseline"} /\ n_seasons \in 1..MaxSeasons
    /\ build \in Builds
    /\ seed \in SEED..(SEED + MaxSeed)
    /\ threshold \in Thresholds
    /\ run = 1
    /\ rng = Seeded(seed)
    /\ draws = NoDraws
    /\ pc = StartOf(entry)
    /\ teams = << >>
    /\ Blank

\* the caller keeps the first run's results, creates the generators anew from
\* the same seed, sets the threshold and runs again
Reseed ==
    /\ pc \in {"returned", "done"}
    /\ run = 1
    /\ first' = [ret |-> ret, avgs |-> avgs, teams |-> teams, fixtures |-> fixtures,
                 ranked |-> ranked, points |-> points, threshold |-> threshold]
    /\ run' = 2
    /\ rng' = Seeded(seed)
    /\ draws' = NoDraws
    /\ results' = << >>
    /\ threshold' \in Thresholds
    /\ pc' = StartOf(entry)
    /\ UNCHANGED << entry, build, seed, n_seasons, season, teams, points, pots, i, potNo,
                    opponents, todo, groups, cur, fixtures, ranked, ret, totals, avgs >>

NextRerun == Next \/ Reseed

SpecRerun == InitRerun /\ [][NextRerun]_vars

-----------------------------------------------------------------------------
(* A format simulator called on a pool of any size *)

\* pool sizes from the required size minus MaxSizeOff to it plus MaxSizeOff
MaxSizeOff == 1

RequiredSize(e) == IF e = "call_swiss" THEN N_TEAMS ELSE 32

\* a pool of n teams: a generated pool cut, or continued with further teams
PoolOfSize(pool, n) ==
    [k \in 1..n |-> IF k <= Len(pool) THEN pool[k]
                    ELSE [name |-> << "Extra", k - Len(pool) >>, elo |-> 1600]]

PoolSizes(e) == {1} \cup ((RequiredSize(e) - MaxSizeOff)..(RequiredSize(e) + MaxSizeOff))

\* simulate_swiss_league_phase(teams) | simulate_group_stage(teams)
InitCall ==
    /\ entry \in {"call_swiss", "call_baseline"}
    /\ build \in Builds
    /\ seed \in SEED..(SEED + MaxSeed)
    /\ threshold = WEAK_ELO_THRESHOLD
    /\ run = 1
    /\ n_seasons = 1
    /\ draws = NoDraws
    /\ Blank
    /\ \E n \in PoolSizes(entry) :
          LET g == IF entry = "call_swiss" THEN generate_teams(seed)
                   ELSE generate_teams_32(seed)
          IN  /\ teams = PoolOfSize(g.val, n)
              /\ rng = [Seeded(seed) EXCEPT ![Gen(IF entry = "call_swiss" THEN "swiss"
                                                   ELSE "baseline")] = g.st]
    /\ pc = IF entry = "call_swiss" THEN "swiss_phase" ELSE "base_phase"

NextCall ==
    \/ SwissPhaseStart \/ DrawOpponents \/ SwissPlayFixture
    \/ DrawGroups \/ PlayGroupFixture

SpecCall == InitCall /\ [][NextCall]_vars

-----------------------------------------------------------------------------
(* simulate_match called on two ratings, the generator in any state *)

\* generator states 0 .. MaxState are explored
MaxState == 65535

\* the ratings a match is called with: the lowest and the highest rating a pool
\* can hold, and the limit of the weak tier
MatchElos == {1350, 1550, 2050}

\* simulate_match(elo_a, elo_b)
InitMatch ==
    /\ entry = "call_match"
    /\ build \in Builds
    /\ seed = SEED
    /\ threshold = WEAK_ELO_THRESHOLD
    /\ run = 1
    /\ n_seasons = 1
    /\ draws = NoDraws
    /\ Blank
    /\ \E elo_a \in MatchElos, elo_b \in MatchElos :
          teams = << [name |-> << "A", 1 >>, elo |-> elo_a],
                     [name |-> << "B", 1 >>, elo |-> elo_b] >>
    /\ \E st \in 0..MaxState : rng = Seeded(st)
    /\ pc = "match"

\* the call: ret is the pair returned, with the uniform draw r it was decided by
SimulateMatch ==
    /\ pc = "match"
    /\ LET m == simulate_match(teams[1].elo, teams[2].elo, rng[Gen("swiss")])
       IN  /\ Drawn("swiss", m.st, 1)
           /\ ret' = [pa |-> m.val[1], pb |-> m.val[2], r |-> m.r]
    /\ pc' = "returned"
    /\ UNCHANGED << entry, build, seed, threshold, n_seasons, season, teams, points, pots,
                    i, potNo, opponents, todo, groups, cur, fixtures, ranked, totals,
                    avgs, run, first, results >>

NextMatch == SimulateMatch

SpecMatch == InitMatch /\ [][NextMatch]_vars

-----------------------------------------------------------------------------
(* Properties *)

\* the team indices of pot p (1..4)
PotMembers(p) == Range(PotIdx(teams, pots[p]))

\* the season evaluator of a format has returned its counts in ret
SwissReturned == pc = "swiss_acc" \/ (pc = "returned" /\ entry = "season_swiss")
BaselineReturned == pc = "base_acc" \/ (pc = "returned" /\ entry = "season_baseline")

\* C1: in simulate_swiss_league_phase on a 36-team pool, while team i's fixtures
\* are simulated its opponent set has exactly 8 distinct team indices, exactly 2
\* of each of the 4 pots, and does not contain i.
C1_OpponentSet ==
    (pc = "swiss_play" /\ Len(teams) = N_TEAMS) =>
        /\ opponents \subseteq 0..(N_TEAMS - 1)
        /\ Cardinality(opponents) = 8
        /\ i \notin opponents
        /\ \A p \in 1..4 : Cardinality(opponents \cap PotMembers(p)) = 2

\* the last team's last fixture is about to be simulated
C1_Witness ==
    /\ pc = "swiss_play" /\ Len(teams) = N_TEAMS
    /\ i = N_TEAMS - 1 /\ Len(todo) = 1
    /\ Cardinality(opponents) = 8

\* make_pots_by_elo has just returned: pots holds its result, which nothing
\* changes afterwards
PotsReturned == pc = "swiss_draw" /\ i = 0 /\ potNo = 1

\* C2: for a 36-team pool make_pots_by_elo returns 4 pots of exactly 9 teams that
\* partition the pool, and every rating of pot k is >= every rating of pot k+1.
C2_Pots ==
    (PotsReturned /\ Len(teams) = N_TEAMS) =>
        LET members == [p \in 1..Len(pots) |-> PotMembers(p)]
            lowest == [p \in 1..Len(pots) |->
                         CHOOSE e \in {pots[p][k].elo : k \in 1..Len(pots[p])} :
                            \A k \in 1..Len(pots[p]) : e <= pots[p][k].elo]
        IN  /\ Len(pots) = 4
            /\ \A p \in 1..4 :
                  /\ Len(pots[p]) = 9
                  /\ \A k \in 1..Len(pots[p]) :
                        At(teams, name_to_idx(teams, pots[p][k].name)) = pots[p][k]
            /\ UNION {members[p] : p \in 1..4} = 0..(N_TEAMS - 1)
            /\ \A p, q \in 1..4 : p # q => members[p] \cap members[q] = {}
            /\ \A p \in 1..3 : \A l \in 1..Len(pots[p + 1]) :
                  lowest[p] >= pots[p + 1][l].elo

\* the pots of a pool in which two teams share a rating, computed by main.py's
\* argsort
C2_Witness ==
    /\ PotsReturned /\ Len(teams) = N_TEAMS
    /\ entry = "main"
    /\ \E p \in 1..4 : \E k \in 1..8 : pots[p][k].elo = pots[p][k + 1].elo

\* C3: simulate_group_stage on a 32-team pool produces exactly 8 groups of
\* exactly 4 team indices, and every index 0..31 is in exactly one group.
C3_Groups ==
    (pc \in {"base_play", "base_eval"} /\ Len(teams) = 32) =>
        /\ Len(groups) = 8
        /\ \A g \in 1..Len(groups) :
              Len(groups[g]) = 4 /\ Cardinality(Range(groups[g])) = 4
        /\ \A k \in 0..31 :
              Cardinality({g \in 1..Len(groups) : k \in Range(groups[g])}) = 1

\* groups drawn that are not the 8 consecutive index blocks
C3_Witness ==
    /\ pc = "base_play" /\ Len(teams) = 32 /\ Len(groups) = 8
    /\ \E g \in 1..8 : \E k \in 1..3 : groups[g][k] > groups[g][k + 1]

SameGroup(a, b) == \E g \in 1..Len(groups) : {a, b} \subseteq Range(groups[g])

\* the fixtures simulated so far between a and b
Played(a, b) ==
    Cardinality({k \in 1..Len(fixtures) : {fixtures[k].a, fixtures[k].b} = {a, b}})

\* the points the simulated fixtures gave team t
CreditedTo(t) ==
    SeqSum([k \in 1..Len(fixtures) |->
               (IF fixtures[k].a = t THEN fixtures[k].pa ELSE 0)
             + (IF fixtures[k].b = t THEN fixtures[k].pb ELSE 0)])

\* C4: in simulate_group_stage only teams of one group play each other, every
\* fixture credits both of its teams, and at the end every pair of a group has
\* played exactly 2 fixtures: 12 per group, 96 in the season.
C4_RoundRobin ==
    (pc \in {"base_play", "base_eval"} /\ Len(teams) = 32) =>
        /\ \A k \in 1..Len(fixtures) :
              fixtures[k].a # fixtures[k].b /\ SameGroup(fixtures[k].a, fixtures[k].b)
        /\ \A t \in 0..31 : At(points, t) = CreditedTo(t)
        /\ \A g \in 1..Len(groups) : \A a, b \in Range(groups[g]) :
              a # b => Played(a, b) <= 2
        /\ pc = "base_eval" =>
              /\ Len(fixtures) = 96
              /\ \A g \in 1..Len(groups) :
                    /\ \A a, b \in Range(groups[g]) : a # b => Played(a, b) = 2
                    /\ Cardinality({k \in 1..Len(fixtures) :
                                       fixtures[k].a \in Range(groups[g])}) = 12

\* a finished group stage in which a draw and a win were both credited
C4_Witness ==
    /\ pc = "base_eval" /\ Len(teams) = 32 /\ Len(fixtures) = 96
    /\ \E k, l \in 1..Len(fixtures) :
          /\ fixtures[k].pa = 1 /\ fixtures[k].pb = 1
          /\ fixtures[l].pa + fixtures[l].pb = 3

\* C5: the counts a season evaluator returns are within bounds:
\* weak_group_winner in 0..8 and weak_qualified in 0..16 (baseline),
\* weak_in_top8 in 0..8 and weak_in_top24 in 0..24 (Swiss).
C5_CountBounds ==
    /\ SwissReturned =>
          ret.weak_in_top8 \in 0..8 /\ ret.weak_in_top24 \in 0..24
    /\ BaselineReturned =>
          ret.weak_group_winner \in 0..8 /\ ret.weak_qualified \in 0..16

\* a Swiss season with at least 7 of the top 8 and 18 of the top 24 below the
\* threshold
C5_Witness == SwissReturned /\ ret.weak_in_top8 >= 7 /\ ret.weak_in_top24 >= 18

\* C6: a format simulator given a pool of another size than its format's (32 for
\* simulate_group_stage, 36 for simulate_swiss_league_phase) rejects it before
\* any fixture is simulated or any point is credited.
C6_RejectsWrongSize ==
    (IsCall /\ Len(teams) # RequiredSize(entry)) =>
        /\ fixtures = << >>
        /\ \A k \in 1..Len(points) : points[k] = 0
        /\ pc # "returned"

\* the second run is over
SecondRunOver == run = 2 /\ pc \in {"returned", "done"}

\* C7: a run repeated from generators re-seeded with the same seed (and with the
\* same threshold) produces the same teams, pairings, outcomes, points, ranking,
\* counts and averages; so for simulate_one_baseline_season run twice.
C7_Determinism ==
    (SecondRunOver /\ threshold = first.threshold) =>
        /\ teams = first.teams
        /\ fixtures = first.fixtures
        /\ points = first.points
        /\ ranked = first.ranked
        /\ ret = first.ret
        /\ avgs = first.avgs

\* simulate_one_baseline_season has returned the second time, with weak qualifiers
C7_Witness ==
    /\ SecondRunOver /\ threshold = first.threshold
    /\ entry = "season_baseline"
    /\ ret.weak_qualified > 0

\* the position of team index t in a sequence of indices
PosIn(idxs, t) == CHOOSE k \in 1..Len(idxs) : idxs[k] = t

\* C8 as claimed: both rankings are by points descending and, of two teams with
\* equal points, the one with the smaller team index is ranked first.
C8_TiesByIndex ==
    /\ pc = "base_acc" =>
          \A g \in 1..Len(ranked) : \A p, q \in 1..Len(ranked[g]) :
              p < q =>
                 /\ At(points, ranked[g][p]) >= At(points, ranked[g][q])
                 /\ At(points, ranked[g][p]) = At(points, ranked[g][q])
                       => ranked[g][p] < ranked[g][q]
    /\ pc = "swiss_acc" =>
          \A p, q \in 1..Len(ranked) :
              p < q =>
                 /\ ranked[p].points >= ranked[q].points
                 /\ ranked[p].points = ranked[q].points => ranked[p].idx < ranked[q].idx

\* C8 (amended): both rankings are permutations of the ranked teams by points
\* descending.  In the per-group ranking of simulate_one_baseline_season teams
\* with equal points keep the order they have in the group as drawn, which is
\* not the order of their indices; simulate_one_swiss_season promises no order
\* among equal points (np.argsort's default sort is not stable).
C8_RankingOrder ==
    /\ pc = "base_acc" =>
          \A g \in 1..Len(ranked) :
              /\ Len(ranked[g]) = Len(groups[g])
              /\ Range(ranked[g]) = Range(groups[g])
              /\ \A p, q \in 1..Len(ranked[g]) :
                    p < q =>
                       /\ At(points, ranked[g][p]) >= At(points, ranked[g][q])
                       /\ At(points, ranked[g][p]) = At(points, ranked[g][q])
                             => PosIn(groups[g], ranked[g][p]) < PosIn(groups[g], ranked[g][q])
    /\ pc = "swiss_acc" =>
          /\ Len(ranked) = Len(teams)
          /\ {ranked[p].idx : p \in 1..Len(ranked)} = 0..(Len(teams) - 1)
          /\ \A p \in 1..Len(ranked) :
                /\ ranked[p].points = At(points, ranked[p].idx)
                /\ ranked[p].elo = At(teams, ranked[p].idx).elo
                /\ ranked[p].name = At(teams, ranked[p].idx).name
          /\ \A p, q \in 1..Len(ranked) : p < q => ranked[p].points >= ranked[q].points

\* a group ranked with two teams level on points, the larger index first
C8_Witness ==
    /\ pc = "base_acc"
    /\ \E g \in 1..Len(ranked) : \E p \in 1..3 :
          /\ At(points, ranked[g][p]) = At(points, ranked[g][p + 1])
          /\ ranked[g][p] > ranked[g][p + 1]

\* the draws one Swiss season takes: the pool, 2 per opponent draw, 1 per fixture
SwissSeasonDraws == GenDraws(N_TEAMS) + N_TEAMS * (4 * 2 + 8)

SwissRunning ==
    pc \in {"swiss_loop", "swiss_season", "swiss_phase", "swiss_draw", "swiss_play",
            "swiss_eval", "swiss_acc", "swiss_returned"}

BaselineRunning ==
    pc \in {"base_loop", "base_season", "base_phase", "base_play", "base_eval", "base_acc"}

\* C9 as claimed: all randomness of a run is drawn from one generator.
C9_SingleStream == Cardinality({m \in Modules : draws[m] > 0}) <= 1

\* C9 (amended): every module draws from its own generator, created with seed
\* 42: the Swiss simulation draws only from its module's generator, the
\* baseline simulation only from baseline.py's, and in compare.main the baseline
\* simulation starts its own stream at the seed and leaves the Swiss generator
\* where the Swiss simulation left it.
C9_PerModuleStreams ==
    /\ \A m \in Modules : draws[m] = 0 => rng[m] = seed
    /\ SwissRunning => \A m \in Modules \ {SwissModule} : draws[m] = 0
    /\ BaselineRunning =>
          /\ draws["main"] = 0
          /\ draws["swiss"] = IF entry = "compare" THEN n_seasons * SwissSeasonDraws ELSE 0
          /\ pc \in {"base_phase", "base_play", "base_eval", "base_acc"}
                => draws["baseline"] > 0

\* compare.main: the baseline fixtures are drawn from baseline.py's generator
\* after the Swiss simulation has drawn from swiss.py's
C9_Witness ==
    /\ entry = "compare" /\ pc = "base_play"
    /\ draws["swiss"] > 0 /\ draws["baseline"] > 0

AvgLeq(x, y) == x.num * y.den <= y.num * x.den

\* C10: with the same seed and season count, a run with a threshold at least as
\* large draws the same teams, pairings, outcomes and rankings, and none of its
\* weak counts and averages is smaller.
C10_ThresholdMonotone ==
    (SecondRunOver /\ first.threshold <= threshold) =>
        /\ teams = first.teams
        /\ fixtures = first.fixtures
        /\ points = first.points
        /\ ranked = first.ranked
        /\ entry \in {"swiss", "season_swiss"} =>
              /\ first.ret.weak_in_top8 <= ret.weak_in_top8
              /\ first.ret.weak_in_top24 <= ret.weak_in_top24
        /\ entry \in {"baseline", "season_baseline"} =>
              /\ first.ret.weak_qualified <= ret.weak_qualified
              /\ first.ret.weak_group_winner <= ret.weak_group_winner
        /\ AvgLeq(first.avgs.avg_top8, avgs.avg_top8)
        /\ AvgLeq(first.avgs.avg_top24, avgs.avg_top24)
        /\ AvgLeq(first.avgs.avg_qualified, avgs.avg_qualified)
        /\ AvgLeq(first.avgs.avg_winners, avgs.avg_winners)

\* run_baseline_simulation over several seasons, first with the lower and then
\* with the higher threshold, the average of weak qualifiers strictly larger
C10_Witness ==
    /\ SecondRunOver /\ first.threshold < threshold
    /\ entry = "baseline" /\ n_seasons > 1
    /\ first.avgs.avg_qualified.num < avgs.avg_qualified.num

-----------------------------------------------------------------------------
(* Averaging *)

\* run_swiss_simulation of swiss.py / run_baseline_simulation has returned
SwissAveraged == pc = "swiss_returned" \/ (pc = "done" /\ entry = "swiss")
BaselineAveraged == pc = "done" /\ entry \in {"baseline", "compare"}

\* the sum of one metric over the seasons the running simulation evaluated
MetricSum(metric) == SeqSum([k \in 1..Len(results) |-> results[k][metric]])

\* the averages returned are total / n_seasons of the metrics in ms
AveragesOf(ms) ==
    /\ Len(results) = n_seasons
    /\ \A a \in DOMAIN ms :
          /\ avgs[a].num = MetricSum(ms[a])
          /\ avgs[a].den = n_seasons
          /\ n_seasons = 1 => avgs[a].num = results[1][ms[a]] /\ avgs[a].den = 1

\* C11: for n_seasons >= 1, run_swiss_simulation and run_baseline_simulation
\* return, per metric, the sum of the metric over exactly n_seasons simulated
\* seasons divided by n_seasons; with n_seasons = 1 that is the single season's
\* raw count.
C11_Averages ==
    /\ SwissAveraged =>
          AveragesOf([avg_top8 |-> "weak_in_top8", avg_top24 |-> "weak_in_top24"])
    /\ BaselineAveraged =>
          AveragesOf([avg_qualified |-> "weak_qualified",
                      avg_winners |-> "weak_group_winner"])

\* a two-season baseline simulation has returned a non-zero average of two
\* seasons whose counts differ
C11_Witness ==
    /\ BaselineAveraged
    /\ n_seasons = 2
    /\ results[1] # results[2]
    /\ avgs.avg_qualified.num > 0

-----------------------------------------------------------------------------
(* Frame of the Swiss phase *)

\* simulate_swiss_league_phase is about to return points
SwissPhaseOver == pc = "swiss_eval"

\* the fixtures simulated for team t, as positions of the log
OwnFixtures(t) == {k \in 1..Len(fixtures) : fixtures[k].a = t}

\* what team t earned in the fixtures simulated for it: 3 for each it won and
\* 1 for each drawn
OwnPoints(t) ==
    3 * Cardinality({k \in OwnFixtures(t) : fixtures[k].pa = 3})
      + Cardinality({k \in OwnFixtures(t) : fixtures[k].pa = 1})

\* a step of the phase adds 0, 1 or 3 to points[i] when it simulates a fixture
\* of team i, and changes no other entry
SwissFixtureFrame ==
    pc \in {"swiss_draw", "swiss_play"} /\ entry \in {"swiss", "main", "compare"} =>
        IF pc = "swiss_play"
        THEN /\ \E d \in {0, 1, 3} : points' = [points EXCEPT ![i + 1] = @ + d]
             /\ \A t \in 1..Len(points) : points'[t] >= points[t]
        ELSE points' = points

\* C12: in the Swiss phase each fixture simulated for team i adds 0, 1 or 3 to
\* points[i] and leaves every other entry (the opponent's too) unchanged, so no
\* entry decreases, and at the end of the phase points[i] is the sum of what
\* team i earned in its own 8 fixtures.
C12_SwissFrame ==
    /\ [][SwissFixtureFrame]_vars
    /\ [](SwissPhaseOver =>
            \A t \in 0..(Len(teams) - 1) :
                /\ Cardinality(OwnFixtures(t)) = 8
                /\ \A k \in OwnFixtures(t) : fixtures[k].pa \in {0, 1, 3}
                /\ points[t + 1] = OwnPoints(t))

\* a phase is over in which some opponent won a fixture, some team won one of
\* its own and some fixture was drawn
C12_Witness ==
    /\ SwissPhaseOver
    /\ \E k \in 1..Len(fixtures) : fixtures[k].pa = 0 /\ fixtures[k].pb = 3
    /\ \E k \in 1..Len(fixtures) : fixtures[k].pa = 3
    /\ \E k \in 1..Len(fixtures) : fixtures[k].pa = 1

-----------------------------------------------------------------------------
(* Outcome bands of a match *)

MatchReturned == entry = "call_match" /\ pc = "returned"

\* the upper end of the A-win band: p_draw + (1 - p_draw) * win_probability
WinBandEnd(elo_a, elo_b) ==
    DRAW_PROB + ((ONE - DRAW_PROB) * win_probability(elo_a, elo_b)) \div ONE

\* C13: simulate_match maps every uniform draw r of [0, 1) to exactly one of
\* three outcomes in contiguous bands, in the order draw, A-win, B-win: (1, 1)
\* exactly when r < p_draw whatever the ratings, (3, 0) exactly when
\* p_draw <= r < p_draw + (1 - p_draw) * win_probability(elo_a, elo_b), (0, 3)
\* otherwise; the two points add up to 2 or 3.
C13_OutcomeBands ==
    MatchReturned =>
        LET res == << ret.pa, ret.pb >>
            r == ret.r
            w == WinBandEnd(teams[1].elo, teams[2].elo)
        IN  /\ r \in 0..(ONE - 1)
            /\ res \in {<< 1, 1 >>, << 3, 0 >>, << 0, 3 >>}
            /\ res = << 1, 1 >> <=> r < DRAW_PROB
            /\ res = << 3, 0 >> <=> (DRAW_PROB <= r /\ r < w)
            /\ res = << 0, 3 >> <=> r >= w
            /\ ret.pa + ret.pb \in {2, 3}

\* the draw is exactly p_draw, the weaker side is A, and A has won
C13_Witness ==
    /\ MatchReturned
    /\ ret.r = DRAW_PROB
    /\ teams[1].elo < teams[2].elo
    /\ << ret.pa, ret.pb >> = << 3, 0 >>

-----------------------------------------------------------------------------
(* Sampling exhaustion *)

\* an opponent draw of team i from pot potNo is about to be taken
AtOpponentDraw == pc = "swiss_draw" /\ entry \in {"swiss", "main", "compare"}

\* C14: on a generated 36-team pool, at every opponent draw of
\* simulate_swiss_league_phase the candidate list (the pot's members without i
\* and without the opponents already selected) has 8 members for i's own pot
\* and 9 for every other pot, so the draw of 2 distinct candidates never fails.
C14_NoExhaustion ==
    /\ entry \in {"swiss", "main", "compare"} => pc # "error"
    /\ AtOpponentDraw =>
          /\ Len(teams) = N_TEAMS
          /\ Len(Candidates(teams, pots[potNo], i, opponents)) =
                 (IF i \in PotMembers(potNo) THEN 8 ELSE 9)

\* the last draw of a team of the last pot: 6 opponents are selected already
\* and the team's own pot is drawn from
C14_Witness ==
    /\ AtOpponentDraw
    /\ potNo = 4
    /\ i \in PotMembers(4)
    /\ Cardinality(opponents) = 6
    /\ Len(Candidates(teams, pots[potNo], i, opponents)) = 8

====
